---- MODULE Spec2Model ----
(***************************************************************************)
(* Model of dump-stream.py: the XMTP subscribe-all stream dumper.          *)
(*                                                                         *)
(* Text is a sequence of one-character strings.  A JSON value is a record  *)
(* [t, s, n, o]: its type tag, its text (t = "str"), its number            *)
(* (t = "num") and its members (t = "obj", a function from keys to JSON    *)
(* values).  Python's None and JSON null are the same value, Null.         *)
(***************************************************************************)
EXTENDS Integers, Sequences, FiniteSets, TLC

VARIABLES state, args, consumed, count, stdout, stderr, conn, opens, exited,
          interrupted, fn_in, fn_out, fn_done

vars == <<state, args, consumed, count, stdout, stderr, conn, opens, exited,
          interrupted, fn_in, fn_out, fn_done>>

loopVars == <<state, args, consumed, count, stdout, stderr, conn, opens,
              exited, interrupted>>

fnVars == <<fn_in, fn_out, fn_done>>

(***************************************************************************)
(* Bounds of the exploration.                                              *)
(***************************************************************************)
MaxTopicLen == 3
MaxFilterLen == 2
MaxMsgLen == 3
MaxMessageMax == 2
MaxHexMax == 2
MaxLines == 3
MaxMessages == 2

(***************************************************************************)
(* JSON values.                                                            *)
(***************************************************************************)
NoMembers == <<>>

Null == [t |-> "null", s |-> <<>>, n |-> 0, o |-> NoMembers]

Str(s) == [t |-> "str", s |-> s, n |-> 0, o |-> NoMembers]

Num(n) == [t |-> "num", s |-> <<>>, n |-> n, o |-> NoMembers]

Obj(o) == [t |-> "obj", s |-> <<>>, n |-> 0, o |-> o]

\* dict.get(key): the member, or None when the key is absent
Get(o, key) == IF key \in DOMAIN o THEN o[key] ELSE Null

\* dict[key] = value
Put(o, key, value) ==
    [k \in DOMAIN o \cup {key} |-> IF k = key THEN value ELSE o[k]]

\* dict.pop(key, None)
Pop(o, key) == [k \in DOMAIN o \ {key} |-> o[k]]

\* Python truthiness of an Optional[str] value
Truthy(v) ==
    CASE v.t = "null" -> FALSE
      [] v.t = "str" -> v.s # <<>>
      [] v.t = "num" -> v.n # 0
      [] OTHER -> TRUE

(***************************************************************************)
(* Text helpers.                                                           *)
(***************************************************************************)
Min(a, b) == IF a <= b THEN a ELSE b

Max(a, b) == IF a >= b THEN a ELSE b

\* str.startswith
StartsWith(text, prefix) ==
    /\ Len(prefix) <= Len(text)
    /\ SubSeq(text, 1, Len(prefix)) = prefix

\* the `in` operator on str
Contains(text, part) ==
    \E i \in 0..(Len(text) - Len(part)) :
        SubSeq(text, i + 1, i + Len(part)) = part

\* s[:n], with Python's meaning of a negative n
PyPrefix(s, n) ==
    IF n >= 0 THEN SubSeq(s, 1, Min(n, Len(s)))
    ELSE SubSeq(s, 1, Max(0, Len(s) + n))

(***************************************************************************)
(* should_emit                                                             *)
(***************************************************************************)
\* the two filters OR-combined: either one matching lets the topic through
should_emit_or(topic, contains, prefix) ==
    IF ~Truthy(topic)
    THEN IF (contains # <<>> \/ prefix # <<>>) THEN FALSE ELSE TRUE
    ELSE IF contains # <<>> /\ ~Contains(topic.s, contains)
              /\ prefix # <<>> /\ ~StartsWith(topic.s, prefix)
    THEN FALSE
    ELSE TRUE

should_emit(topic, contains, prefix) ==
    IF ~Truthy(topic)
    THEN IF (contains # <<>> \/ prefix # <<>>) THEN FALSE ELSE TRUE
    ELSE IF contains # <<>> /\ ~Contains(topic.s, contains)
    THEN FALSE
    ELSE IF prefix # <<>> /\ ~StartsWith(topic.s, prefix)
    THEN FALSE
    ELSE TRUE

(***************************************************************************)
(* decode_message_bytes: pad to a multiple of four, then base64.b64decode  *)
(* with validate=False, which skips characters outside the alphabet, stops *)
(* at a completed pad sequence and fails on a dangling quantum.            *)
(***************************************************************************)
B64Alphabet ==
    << "A","B","C","D","E","F","G","H","I","J","K","L","M","N","O","P",
       "Q","R","S","T","U","V","W","X","Y","Z","a","b","c","d","e","f",
       "g","h","i","j","k","l","m","n","o","p","q","r","s","t","u","v",
       "w","x","y","z","0","1","2","3","4","5","6","7","8","9","+","/" >>

\* the six-bit value of a character; 64 for a character outside the alphabet
B64Val(c) ==
    IF \E i \in 1..Len(B64Alphabet) : B64Alphabet[i] = c
    THEN (CHOOSE i \in 1..Len(B64Alphabet) : B64Alphabet[i] = c) - 1
    ELSE Len(B64Alphabet)

RECURSIVE Repeat(_, _)
Repeat(c, n) == IF n <= 0 THEN <<>> ELSE <<c>> \o Repeat(c, n - 1)

DecodeFailed == [ok |-> FALSE, bytes |-> <<>>]

Decoded(bytes) == [ok |-> TRUE, bytes |-> bytes]

RECURSIVE A2B(_, _, _, _, _, _)
A2B(s, i, quad, left, pads, out) ==
    IF i > Len(s)
    THEN IF quad # 0 THEN DecodeFailed ELSE Decoded(out)
    ELSE IF s[i] = "="
    THEN IF quad >= 2 /\ quad + pads + 1 >= 4
         THEN Decoded(out)
         ELSE A2B(s, i + 1, quad, left, IF quad >= 2 THEN pads + 1 ELSE pads, out)
    ELSE IF B64Val(s[i]) >= Len(B64Alphabet)
    THEN A2B(s, i + 1, quad, left, pads, out)
    ELSE LET v == B64Val(s[i]) IN
         CASE quad = 0 -> A2B(s, i + 1, 1, v, 0, out)
           [] quad = 1 ->
                A2B(s, i + 1, 2, v % 16, 0, Append(out, (left * 4) + (v \div 16)))
           [] quad = 2 ->
                A2B(s, i + 1, 3, v % 4, 0, Append(out, (left * 16) + (v \div 4)))
           [] OTHER ->
                A2B(s, i + 1, 0, 0, 0, Append(out, (left * 64) + v))

decode_message_bytes(message_b64) ==
    LET padding == Repeat("=", (4 - (Len(message_b64) % 4)) % 4)
    IN  A2B(message_b64 \o padding, 1, 0, 0, 0, <<>>)

(***************************************************************************)
(* bytes.hex() and the decimal text of an f-string number.                 *)
(***************************************************************************)
HexDigits ==
    << "0","1","2","3","4","5","6","7","8","9","a","b","c","d","e","f" >>

RECURSIVE Hex(_)
Hex(bytes) ==
    IF bytes = <<>> THEN <<>>
    ELSE << HexDigits[(Head(bytes) \div 16) + 1],
            HexDigits[(Head(bytes) % 16) + 1] >>
         \o Hex(Tail(bytes))

RECURSIVE Decimal(_)
Decimal(n) ==
    IF n < 0 THEN <<"-">> \o Decimal(0 - n)
    ELSE IF n < 10 THEN << HexDigits[n + 1] >>
    ELSE Decimal(n \div 10) \o << HexDigits[(n % 10) + 1] >>

Ellipsis == << ".", ".", "." >>

\* f"{clipped.hex()}...(+{len(raw) - args.hex_max} bytes)"
ClippedHex(raw, hex_max) ==
    Hex(PyPrefix(raw, hex_max)) \o Ellipsis \o << "(", "+" >>
        \o Decimal(Len(raw) - hex_max) \o << " ", "b", "y", "t", "e", "s", ")" >>

HexField(raw, hex_max) ==
    IF hex_max = 0 \/ Len(raw) <= hex_max
    THEN Str(Hex(raw))
    ELSE Str(ClippedHex(raw, hex_max))

(***************************************************************************)
(* format_envelope                                                         *)
(***************************************************************************)
\* lines 130-143: the derived length and hex fields
DecodeStep(output, message_b64, a) ==
    IF a.decode_message
    THEN LET raw == decode_message_bytes(message_b64) IN
         IF raw.ok
         THEN Put(Put(output, "messageBytesLen", Num(Len(raw.bytes))),
                  "messageBytesHex", HexField(raw.bytes, a.hex_max))
         ELSE Put(Put(output, "messageBytesLen", Null), "messageBytesHex", Null)
    ELSE output

\* the truncated text stored under the topic's key
TruncateStep_topic(output, message_b64, a) ==
    IF a.message_max # 0 /\ a.message_max > 0 /\ Len(message_b64) > a.message_max
    THEN Put(output, "contentTopic",
             Str(PyPrefix(message_b64, a.message_max) \o Ellipsis))
    ELSE output

\* lines 144-146: truncation of the base64 text
TruncateStep(output, message_b64, a) ==
    IF a.message_max # 0 /\ a.message_max > 0 /\ Len(message_b64) > a.message_max
    THEN Put(output, "message",
             Str(PyPrefix(message_b64, a.message_max) \o Ellipsis))
    ELSE output

\* lines 147-148 and 150-151: omission of the message field
OmitStep(output, a) ==
    IF a.omit_message THEN Pop(output, "message") ELSE output

\* json.dumps(output, indent=indent, ensure_ascii=True): one document
json_dumps(output, pretty) ==
    [k |-> "json", text |-> "", doc |-> output,
     indent |-> IF pretty THEN <<2>> ELSE <<>>]

NoDocument == [k |-> "none", text |-> "", doc |-> NoMembers, indent |-> <<>>]

ReturnNone == [status |-> "none", out |-> NoDocument]

Raised == [status |-> "raise", out |-> NoDocument]

Returned(out) == [status |-> "str", out |-> out]

\* the topic filter ignored
format_envelope_nofilter(envelope, a) ==
    IF envelope.t # "obj" THEN Raised
    ELSE LET output == envelope.o
             message_b64 == Get(output, "message")
         IN  Returned(json_dumps(
                 IF message_b64.t = "str"
                 THEN OmitStep(TruncateStep(DecodeStep(output, message_b64.s, a),
                                            message_b64.s, a), a)
                 ELSE OmitStep(output, a),
                 a.pretty))

\* the length and hex fields derived from the text after truncation
format_envelope_late(envelope, a) ==
    IF envelope.t # "obj" THEN Raised
    ELSE IF ~should_emit(Get(envelope.o, "contentTopic"),
                         a.topic_contains, a.topic_prefix)
    THEN ReturnNone
    ELSE LET output == envelope.o
             message_b64 == Get(output, "message")
             cut == TruncateStep(output, message_b64.s, a)
         IN  Returned(json_dumps(
                 IF message_b64.t = "str"
                 THEN OmitStep(DecodeStep(cut, Get(cut, "message").s, a), a)
                 ELSE OmitStep(output, a),
                 a.pretty))

format_envelope(envelope, a) ==
    IF envelope.t # "obj" THEN Raised
    ELSE IF ~should_emit(Get(envelope.o, "contentTopic"),
                         a.topic_contains, a.topic_prefix)
    THEN ReturnNone
    ELSE LET output == envelope.o
             message_b64 == Get(output, "message")
         IN  Returned(json_dumps(
                 IF message_b64.t = "str"
                 THEN OmitStep(TruncateStep(DecodeStep(output, message_b64.s, a),
                                            message_b64.s, a), a)
                 ELSE OmitStep(output, a),
                 a.pretty))

(***************************************************************************)
(* main: one pass of the loop body for a line already read.                *)
(* A line is [ok, raw, val]: its text, whether json.loads accepts it, and  *)
(* the value json.loads returns.                                           *)
(***************************************************************************)
ExitOk == 0

ExitUnhandled == 1

ExitInterrupted == 130

DefaultMessageMax == 0

DefaultHexMax == 256

Notice == "\nInterrupted."

\* print(line, flush=True): the line itself on standard output
Printed(text) == [k |-> "text", text |-> text, doc |-> NoMembers, indent |-> <<>>]

\* line 192: args.max_messages and count >= args.max_messages
LimitReached_gt(a, c) == a.max_messages # 0 /\ c > a.max_messages

LimitReached(a, c) == a.max_messages # 0 /\ c >= a.max_messages

\* lines 191-193: count += 1, then the limit test
Counted(a, out, c) ==
    [out |-> out, err |-> <<>>, count |-> c + 1,
     ctl |-> IF LimitReached(a, c + 1) THEN "break" ELSE "next"]

\* an exception no handler of main catches
Unhandled(c) == [out |-> <<>>, err |-> <<>>, count |-> c, ctl |-> "raise"]

\* the malformed line counted like any other
MalformedStep_counted(a, line, c) ==
    [out |-> <<>>, err |-> <<line.raw>>, count |-> c + 1,
     ctl |-> IF LimitReached(a, c + 1) THEN "break" ELSE "next"]

\* the malformed line echoed on standard output as well
MalformedStep_stdout(a, line, c) ==
    [out |-> <<Printed(line.raw)>>, err |-> <<line.raw>>, count |-> c,
     ctl |-> "next"]

\* lines 183-185: except json.JSONDecodeError: print to stderr; continue
MalformedStep(a, line, c) ==
    [out |-> <<>>, err |-> <<line.raw>>, count |-> c, ctl |-> "next"]

\* lines 177-193
Body(a, line, c) ==
    IF a.raw THEN Counted(a, <<Printed(line.raw)>>, c)
    ELSE IF ~line.ok THEN MalformedStep(a, line, c)
    ELSE IF line.val.t # "obj" THEN Unhandled(c)
    ELSE LET payload == line.val
             envelope == IF "result" \in DOMAIN payload.o
                         THEN payload.o["result"] ELSE payload
             rendered == format_envelope(envelope, a)
         IN  CASE rendered.status = "raise" -> Unhandled(c)
               [] rendered.status = "none" -> Counted(a, <<>>, c)
               [] OTHER -> Counted(a, <<rendered.out>>, c)

\* the connection left as it is when the block is left
WithExit_leak(c) == c

\* line 175: leaving the with block closes the response
WithExit(c) == "closed"

\* the handler falling through to the normal return
KeyboardInterruptHandler_fallthrough(err) ==
    [stderr |-> Append(err, Notice), exit |-> <<ExitOk>>]

\* lines 194-196
KeyboardInterruptHandler(err) ==
    [stderr |-> Append(err, Notice), exit |-> <<ExitInterrupted>>]

(***************************************************************************)
(* Inputs of the run loop.                                                 *)
(***************************************************************************)
Envelope(topic, message, id, extra) ==
    [k \in {"id"} \cup (IF topic.t = "absent" THEN {} ELSE {"contentTopic"})
               \cup (IF message.t = "absent" THEN {} ELSE {"message"})
               \cup extra
       |-> CASE k = "contentTopic" -> topic
             [] k = "message" -> message
             [] k = "id" -> Num(id)
             [] OTHER -> Str(<<"x">>)]

Absent == [t |-> "absent", s |-> <<>>, n |-> 0, o |-> NoMembers]

Wrapped(value) == Obj([k \in {"result"} |-> value])

LineSet ==
    { [ok |-> FALSE, raw |-> "not json", val |-> Null],
      [ok |-> TRUE, raw |-> "5", val |-> Num(5)],
      [ok |-> TRUE, raw |-> "{result: null}", val |-> Wrapped(Null)],
      [ok |-> TRUE, raw |-> "{contentTopic: ab, message: AA/, id: 1}",
       val |-> Obj(Envelope(Str(<<"a", "b">>), Str(<<"A", "A", "/">>), 1, {}))],
      [ok |-> TRUE, raw |-> "{result: {contentTopic: ba, message: A, id: 2}}",
       val |-> Wrapped(Obj(Envelope(Str(<<"b", "a">>), Str(<<"A">>), 2, {})))],
      [ok |-> TRUE, raw |-> "{message: 7, id: 3}",
       val |-> Obj(Envelope(Absent, Num(7), 3, {}))] }

LoopArgs ==
    [ raw : BOOLEAN, pretty : {FALSE},
      topic_contains : {<<>>, <<"a">>}, topic_prefix : {<<>>, <<"b">>},
      max_messages : (-1)..MaxMessages,
      omit_message : BOOLEAN, message_max : {DefaultMessageMax},
      decode_message : BOOLEAN, hex_max : {DefaultHexMax} ]

NoCall == [none |-> TRUE]

(***************************************************************************)
(* The run loop.                                                           *)
(***************************************************************************)
Init ==
    /\ state = "INIT"
    /\ args \in LoopArgs
    /\ consumed = <<>>
    /\ count = 0
    /\ stdout = <<>>
    /\ stderr = <<>>
    /\ conn = "none"
    /\ opens = 0
    /\ exited = <<>>
    /\ interrupted = FALSE
    /\ fn_in = NoCall
    /\ fn_out = FALSE
    /\ fn_done = FALSE

\* request.urlopen(req) returns the response
Connect ==
    /\ state = "INIT"
    /\ state' = "STREAMING"
    /\ conn' = "open"
    /\ opens' = opens + 1
    /\ UNCHANGED <<args, consumed, count, stdout, stderr, exited, interrupted>>
    /\ UNCHANGED fnVars

\* request.urlopen(req) raises: nothing in main catches it
ConnectFail ==
    /\ state = "INIT"
    /\ state' = "FAILED_CONNECT"
    /\ exited' = <<ExitUnhandled>>
    /\ UNCHANGED <<args, consumed, count, stdout, stderr, conn, opens, interrupted>>
    /\ UNCHANGED fnVars

\* one iteration of `for line in iter_lines(resp)`
ReadLine ==
    /\ state = "STREAMING"
    /\ Len(consumed) < MaxLines
    /\ \E line \in LineSet :
          LET r == Body(args, line, count) IN
          /\ consumed' = Append(consumed, line)
          /\ stdout' = stdout \o r.out
          /\ stderr' = stderr \o r.err
          /\ count' = r.count
          /\ state' = CASE r.ctl = "break" -> "STOPPED_BY_LIMIT"
                        [] r.ctl = "raise" -> "FAILED_LINE"
                        [] OTHER -> "STREAMING"
          /\ conn' = IF r.ctl = "next" THEN conn ELSE WithExit(conn)
          /\ exited' = CASE r.ctl = "break" -> <<ExitOk>>
                         [] r.ctl = "raise" -> <<ExitUnhandled>>
                         [] OTHER -> exited
    /\ UNCHANGED <<args, opens, interrupted>>
    /\ UNCHANGED fnVars

\* the response iterator is exhausted: the server closed the stream
StreamEnd ==
    /\ state = "STREAMING"
    /\ state' = "STOPPED_BY_STREAM_END"
    /\ conn' = WithExit(conn)
    /\ exited' = <<ExitOk>>
    /\ UNCHANGED <<args, consumed, count, stdout, stderr, opens, interrupted>>
    /\ UNCHANGED fnVars

\* the blocking read raises (connection reset, incomplete read)
ReadError ==
    /\ state = "STREAMING"
    /\ state' = "FAILED_READ"
    /\ conn' = WithExit(conn)
    /\ exited' = <<ExitUnhandled>>
    /\ UNCHANGED <<args, consumed, count, stdout, stderr, opens, interrupted>>
    /\ UNCHANGED fnVars

\* KeyboardInterrupt inside the try block, while connecting or reading
Interrupt ==
    /\ state \in {"INIT", "STREAMING"}
    /\ interrupted' = TRUE
    /\ state' = "STOPPED_BY_INTERRUPT"
    /\ conn' = IF state = "STREAMING" THEN WithExit(conn) ELSE conn
    /\ stderr' = KeyboardInterruptHandler(stderr).stderr
    /\ exited' = KeyboardInterruptHandler(stderr).exit
    /\ UNCHANGED <<args, consumed, count, stdout, opens>>
    /\ UNCHANGED fnVars

Next ==
    \/ Connect
    \/ ConnectFail
    \/ ReadLine
    \/ StreamEnd
    \/ ReadError
    \/ Interrupt

Spec == Init /\ [][Next]_vars

(***************************************************************************)
(* should_emit applied to every topic and filter pair within the bounds.   *)
(***************************************************************************)
Texts(alphabet, n) == UNION { [1..k -> alphabet] : k \in 0..n }

TopicAlphabet == {"a", "b"}

EmitInputs ==
    [ topic : {Null} \cup { Str(t) : t \in Texts(TopicAlphabet, MaxTopicLen) },
      contains : Texts(TopicAlphabet, MaxFilterLen),
      prefix : Texts(TopicAlphabet, MaxFilterLen) ]

IdleLoop ==
    /\ state = "IDLE"
    /\ args = NoCall
    /\ consumed = <<>>
    /\ count = 0
    /\ stdout = <<>>
    /\ stderr = <<>>
    /\ conn = "none"
    /\ opens = 0
    /\ exited = <<>>
    /\ interrupted = FALSE

InitEmit ==
    /\ IdleLoop
    /\ fn_in \in EmitInputs
    /\ fn_out = FALSE
    /\ fn_done = FALSE

CallShouldEmit ==
    /\ ~fn_done
    /\ fn_out' = should_emit(fn_in.topic, fn_in.contains, fn_in.prefix)
    /\ fn_done' = TRUE
    /\ UNCHANGED fn_in
    /\ UNCHANGED loopVars

NextEmit == CallShouldEmit

SpecEmit == InitEmit /\ [][NextEmit]_vars

(***************************************************************************)
(* format_envelope applied to every envelope and flag set within the       *)
(* bounds.                                                                 *)
(***************************************************************************)
MsgAlphabet == {"A", "/", "=", "!"}

FmtTopics == {Absent, Str(<<"b", "a">>)}

FmtMessages ==
    {Absent, Num(7)} \cup { Str(m) : m \in Texts(MsgAlphabet, MaxMsgLen) }

FmtEnvelopes ==
    {Num(5)} \cup
    { Obj(Envelope(t, m, 1, x)) :
        t \in FmtTopics, m \in FmtMessages, x \in {{}, {"messageBytesLen"}} }

FmtArgs ==
    [ raw : {FALSE}, pretty : BOOLEAN,
      topic_contains : {<<>>, <<"a">>}, topic_prefix : {<<>>, <<"b">>},
      max_messages : {0},
      omit_message : BOOLEAN, message_max : (-1)..MaxMessageMax,
      decode_message : BOOLEAN, hex_max : (-1)..MaxHexMax ]

InitFmt ==
    /\ IdleLoop
    /\ fn_in \in [envelope : FmtEnvelopes, args : FmtArgs]
    /\ fn_out = FALSE
    /\ fn_done = FALSE

CallFormatEnvelope ==
    /\ ~fn_done
    /\ fn_out' = format_envelope(fn_in.envelope, fn_in.args)
    /\ fn_done' = TRUE
    /\ UNCHANGED fn_in
    /\ UNCHANGED loopVars

NextFmt == CallFormatEnvelope

SpecFmt == InitFmt /\ [][NextFmt]_vars

(***************************************************************************)
(* Properties.                                                             *)
(***************************************************************************)
Terminal ==
    {"STOPPED_BY_LIMIT", "STOPPED_BY_INTERRUPT", "STOPPED_BY_STREAM_END",
     "FAILED_CONNECT", "FAILED_READ", "FAILED_LINE"}

\* the lines consumed so far that json.loads rejects, as positions
MalformedAt == { i \in 1..Len(consumed) : ~consumed[i].ok }

\* the envelope a well-formed line carries: its result member, or itself
EnvelopeOf(line) ==
    IF line.val.t = "obj" /\ "result" \in DOMAIN line.val.o
    THEN line.val.o["result"] ELSE line.val

\* c occurs in t as a contiguous run of characters
IsInfix(c, t) ==
    \E i \in 1..(Len(t) + 1) :
        \A j \in 1..Len(c) : i + j - 1 <= Len(t) /\ t[i + j - 1] = c[j]

\* t begins with p
IsPrefix(p, t) == Len(p) <= Len(t) /\ \A j \in 1..Len(p) : t[j] = p[j]

\* the emit rule as the specification words it, for a topic value T
EmitRule(T, C, P) ==
    /\ (T.t = "str" \/ (C = <<>> /\ P = <<>>))
    /\ (C = <<>> \/ (T.t = "str" /\ IsInfix(C, T.s)))
    /\ (P = <<>> \/ (T.t = "str" /\ IsPrefix(P, T.s)))

\* a record the loop prints: well-formed, an object, and passing the filter
Accepted(line) ==
    /\ line.ok
    /\ EnvelopeOf(line).t = "obj"
    /\ EmitRule(Get(EnvelopeOf(line).o, "contentTopic"),
                args.topic_contains, args.topic_prefix)

\* the positions of the accepted records among the consumed lines
AcceptedAt == { i \in 1..Len(consumed) : Accepted(consumed[i]) }

\* the i-th smallest element of a finite set of numbers
Nth(S, i) == CHOOSE x \in S : Cardinality({ y \in S : y <= x }) = i

\* C1 as stated: while streaming, the processed-record counter equals the
\* number of lines consumed, malformed lines included.
C1_CountsEveryLine ==
    state = "STREAMING" => count = Len(consumed)

\* C1 as amended: while streaming, the counter equals the number of lines
\* consumed that were not malformed JSON (in raw mode no line is parsed, so
\* every line counts); a malformed line leaves the counter unchanged.
C1_CountsParsedLines ==
    state = "STREAMING" =>
        count = IF args.raw THEN Len(consumed)
                ELSE Len(consumed) - Cardinality(MalformedAt)

C1_Witness ==
    /\ state = "STREAMING"
    /\ ~args.raw
    /\ Len(consumed) = 3
    /\ count = 2
    /\ Cardinality(AcceptedAt) = 1

\* C2: with max-messages N > 0 the counter never exceeds N, at most N lines
\* are on standard output, and the loop is in STOPPED_BY_LIMIT exactly when
\* the counter has reached N; with N = 0 the loop never stops by limit.
C2_LimitStops ==
    /\ args.max_messages > 0 =>
          /\ count <= args.max_messages
          /\ Len(stdout) <= args.max_messages
          /\ (count = args.max_messages <=> state = "STOPPED_BY_LIMIT")
    /\ args.max_messages = 0 => state # "STOPPED_BY_LIMIT"

C2_Witness ==
    /\ state = "STOPPED_BY_LIMIT"
    /\ args.max_messages = 2
    /\ Len(stdout) = 2
    /\ Len(consumed) = 3

\* C3: in parsed mode standard output holds exactly one document per
\* accepted record among the consumed lines, in arrival order (the k-th
\* document is the one of the k-th accepted record).
C3_OutputIsAcceptedInOrder ==
    ~args.raw =>
        /\ Len(stdout) = Cardinality(AcceptedAt)
        /\ \A k \in 1..Len(stdout) :
              /\ stdout[k].k = "json"
              /\ stdout[k].doc["id"]
                    = EnvelopeOf(consumed[Nth(AcceptedAt, k)]).o["id"]

C3_Witness ==
    /\ ~args.raw
    /\ Len(stdout) = 2
    /\ Len(consumed) = 3
    /\ stdout[1].doc["id"] # stdout[2].doc["id"]
    /\ \E i \in 1..Len(consumed) :
          consumed[i].ok /\ EnvelopeOf(consumed[i]).t = "obj" /\ i \notin AcceptedAt

\* C4: in parsed mode a step that consumes a malformed line appends exactly
\* that line to standard error and changes nothing else the loop reads:
\* standard output, the counter, the loop state and the connection stay as
\* they were, so the following lines are processed as if it had not occurred.
C4_MalformedIsSkipped ==
    [][ ( /\ state = "STREAMING"
          /\ ~args.raw
          /\ Len(consumed') = Len(consumed) + 1
          /\ ~consumed'[Len(consumed')].ok )
        => ( /\ stderr' = Append(stderr, consumed'[Len(consumed')].raw)
             /\ stdout' = stdout
             /\ count' = count
             /\ state' = "STREAMING"
             /\ conn' = conn
             /\ exited' = exited
             /\ args' = args ) ]_vars

C4_Witness ==
    /\ ~args.raw
    /\ state = "STREAMING"
    /\ Len(stdout) = 1
    /\ \E i \in MalformedAt : \E j \in AcceptedAt :
          i < j /\ stderr = <<consumed[i].raw>>

\* C5: the connection is opened at most once and is open in no terminal
\* state.
C5_ConnectionReleased ==
    /\ opens <= 1
    /\ state \in Terminal => conn # "open"

C5_Witness ==
    /\ state = "FAILED_LINE"
    /\ opens = 1
    /\ conn = "closed"

\* C6: a run stopped by limit or stream end exits 0; an interrupt while
\* connecting or streaming leaves the run in STOPPED_BY_INTERRUPT with the
\* notice last on standard error and exit code 130; no other path exits 130.
C6_ExitCodes ==
    /\ state \in {"STOPPED_BY_LIMIT", "STOPPED_BY_STREAM_END"} => exited = <<0>>
    /\ interrupted =>
          /\ state = "STOPPED_BY_INTERRUPT"
          /\ exited = <<130>>
          /\ stderr # <<>> /\ stderr[Len(stderr)] = Notice
    /\ exited = <<130>> => interrupted
    /\ state = "STOPPED_BY_INTERRUPT" => interrupted

C6_Witness ==
    /\ state = "STOPPED_BY_INTERRUPT"
    /\ conn = "closed"
    /\ exited = <<130>>
    /\ Len(consumed) = 2

\* C7: should_emit(T, C, P) is true exactly when (T is present, or C and P
\* are both empty) and (C is empty or occurs in T) and (P is empty or T
\* starts with P), the two filters AND-combined.
C7_ShouldEmitIff ==
    fn_done => (fn_out <=> EmitRule(fn_in.topic, fn_in.contains, fn_in.prefix))

C7_Witness ==
    /\ fn_done
    /\ fn_out = TRUE
    /\ fn_in.contains # <<>>
    /\ fn_in.prefix # <<>>
    /\ fn_in.prefix # fn_in.contains
    /\ Len(fn_in.topic.s) = 3

\* the fields format_envelope derives when decode-mode is on and the message
\* is text
Derived(envelope, a) ==
    IF a.decode_message /\ Get(envelope.o, "message").t = "str"
    THEN {"messageBytesLen", "messageBytesHex"} ELSE {}

\* C8 as stated: every field of an accepted envelope other than message is
\* in the output document with the same value.
C8_AllOtherFieldsKept ==
    (fn_done /\ fn_out.status = "str") =>
        \A k \in DOMAIN fn_in.envelope.o \ {"message"} :
            /\ k \in DOMAIN fn_out.out.doc
            /\ fn_out.out.doc[k] = fn_in.envelope.o[k]

\* C8 as amended: every field of an accepted envelope other than message,
\* and other than messageBytesLen and messageBytesHex when decode-mode is on
\* and the message is text (the derived values then replace them), is in
\* the output document with the same value; the output holds no field
\* beyond the input's and the two derived ones.
C8_OtherFieldsKept ==
    (fn_done /\ fn_out.status = "str") =>
        /\ \A k \in DOMAIN fn_in.envelope.o
                  \ ({"message"} \cup Derived(fn_in.envelope, fn_in.args)) :
              /\ k \in DOMAIN fn_out.out.doc
              /\ fn_out.out.doc[k] = fn_in.envelope.o[k]
        /\ DOMAIN fn_out.out.doc \subseteq
              DOMAIN fn_in.envelope.o \cup Derived(fn_in.envelope, fn_in.args)

C8_Witness ==
    /\ fn_done
    /\ fn_out.status = "str"
    /\ fn_in.args.decode_message
    /\ fn_in.args.message_max = 1
    /\ fn_in.args.topic_contains = <<"a">>
    /\ "contentTopic" \in DOMAIN fn_out.out.doc
    /\ "messageBytesLen" \in DOMAIN fn_in.envelope.o
    /\ Get(fn_in.envelope.o, "message") = Str(<<"A", "A", "/">>)
    /\ Get(fn_out.out.doc, "message") = Str(<<"A", ".", ".", ".">>)

\* the first n elements of a sequence of at least n elements
FirstBytes(raw, n) == [i \in 1..n |-> raw[i]]

\* C9: with decode-mode on, a text message whose whole base64 text decodes
\* to L bytes and a hex limit N >= 0, messageBytesLen is L and
\* messageBytesHex is the full hex when N = 0 or L <= N, else the hex of the
\* first N bytes followed by ...(+<L - N> bytes), whatever message-max and
\* omit-message are.
C9_HexOfOriginal ==
    ( /\ fn_done
      /\ fn_out.status = "str"
      /\ fn_in.args.decode_message
      /\ fn_in.args.hex_max >= 0
      /\ Get(fn_in.envelope.o, "message").t = "str"
      /\ decode_message_bytes(Get(fn_in.envelope.o, "message").s).ok )
    => LET raw == decode_message_bytes(Get(fn_in.envelope.o, "message").s).bytes
           L == Len(raw)
           N == fn_in.args.hex_max
           doc == fn_out.out.doc
       IN  /\ Get(doc, "messageBytesLen") = Num(L)
           /\ Get(doc, "messageBytesHex") =
                 IF N = 0 \/ L <= N
                 THEN Str(Hex(raw))
                 ELSE Str(Hex(FirstBytes(raw, N))
                          \o << ".", ".", ".", "(", "+" >> \o Decimal(L - N)
                          \o << " ", "b", "y", "t", "e", "s", ")" >>)

C9_Witness ==
    /\ fn_done
    /\ fn_out.status = "str"
    /\ fn_in.args.decode_message
    /\ fn_in.args.omit_message
    /\ fn_in.args.message_max = 1
    /\ fn_in.args.hex_max = 1
    /\ Get(fn_in.envelope.o, "message") = Str(<<"/", "/", "A">>)
    /\ "message" \notin DOMAIN fn_out.out.doc
    /\ Get(fn_out.out.doc, "messageBytesLen") = Num(2)
    /\ Get(fn_out.out.doc, "messageBytesHex")
          = Str(<< "f", "f", ".", ".", ".", "(", "+", "1",
                   " ", "b", "y", "t", "e", "s", ")" >>)

\* C10: in parsed mode a well-formed line whose value, or whose unwrapped
\* result, is not an object does not end the loop with an unhandled error.
C10_NonObjectIsGraceful ==
    ( /\ ~args.raw
      /\ consumed # <<>>
      /\ consumed[Len(consumed)].ok
      /\ EnvelopeOf(consumed[Len(consumed)]).t # "obj" )
    => state # "FAILED_LINE"

====
